---- MODULE Spec2Model ----
(***************************************************************************)
(* FinancialTools: the mortgage calculator, the flat-rate tax function of  *)
(* the investment savings account and the compound-interest calculator.    *)
(* Each script is a specification of its own: Spec (mortgage), SpecTax     *)
(* (calls of calculate_flat_rate_tax) and SpecCompound.                    *)
(*                                                                         *)
(* Numbers.  The scripts compute with Python floats.  The model computes   *)
(* with exact rationals <<numerator, denominator>> in lowest terms, so a   *)
(* formula is checked for the arithmetic the code writes down; the         *)
(* rounding of IEEE doubles is not part of the model.  format_number is    *)
(* modelled by what it prints: the ceiling of the number.                  *)
(***************************************************************************)
EXTENDS Integers, Sequences, FiniteSets, TLC

(***************************************************************************)
(* Rational arithmetic.                                                    *)
(***************************************************************************)
Abs(n) == IF n < 0 THEN -n ELSE n

RECURSIVE GCD(_, _)
GCD(a, b) == IF b = 0 THEN a ELSE GCD(b, a % b)

Rat(n, d) ==
    LET g == GCD(Abs(n), Abs(d))
        s == IF d < 0 THEN -1 ELSE 1
    IN  << (s * n) \div g, (s * d) \div g >>

Whole(n) == << n, 1 >>

Zero == Whole(0)

One == Whole(1)

RNeg(x) == << -x[1], x[2] >>

RAdd(x, y) ==
    LET g == GCD(x[2], y[2])
        l == (x[2] \div g) * y[2]
    IN  Rat(x[1] * (l \div x[2]) + y[1] * (l \div y[2]), l)

RSub(x, y) == RAdd(x, RNeg(y))

RMul(x, y) ==
    LET g1 == GCD(Abs(x[1]), y[2])
        g2 == GCD(Abs(y[1]), x[2])
    IN  Rat((x[1] \div g1) * (y[1] \div g2), (x[2] \div g2) * (y[2] \div g1))

RInv(x) == Rat(x[2], x[1])

RDiv(x, y) == RMul(x, RInv(y))

RLt(x, y) == x[1] * y[2] < y[1] * x[2]

RLe(x, y) == x[1] * y[2] <= y[1] * x[2]

\* int(x): truncation towards zero
Trunc(x) == IF x[1] >= 0 THEN x[1] \div x[2] ELSE -((-x[1]) \div x[2])

\* math.ceil(x)
Ceil(x) == -((-x[1]) \div x[2])

(***************************************************************************)
(* Answers typed at a prompt: the empty line, a text that float() rejects, *)
(* or a number.                                                            *)
(***************************************************************************)
Empty == [kind |-> "empty", val |-> Zero]

Text == [kind |-> "text", val |-> Zero]

Num(x) == [kind |-> "num", val |-> x]

\* bounds of the answers tried at the mortgage prompts
MaxCost == 2

MaxDown == 6

MaxTermQuarters == 6

MaxRate == 2

CostAnswers == {Empty, Text} \cup {Num(Whole(1200 * k)) : k \in -1..MaxCost}

DownAnswers == {Empty, Text} \cup {Num(Whole(25 * k)) : k \in -1..MaxDown}

\* terms of whole quarters, and two terms whose number of months is fractional
TermAnswers ==
    {Empty, Text} \cup {Num(Rat(q, 4)) : q \in -1..MaxTermQuarters}
                  \cup {Num(Rat(1, 20)), Num(Rat(21, 20))}

RateAnswers == {Empty, Text} \cup {Num(Whole(k)) : k \in -1..MaxRate}

(***************************************************************************)
(* State.                                                                  *)
(***************************************************************************)
VARIABLES
    pc,            \* position of the running script
    stdout,        \* the lines printed so far
    exitCode,      \* -1 while running, else the exit status
    stdin,         \* the answers read so far, in order
    propertyCost, downPayment, mortgageType, interestRate,
    loanAmount, amortizationNumberOfPayments, amortizationPayment,
    loanLeft, interestTotal, interest, i,
    raised,        \* the exception that ended the script uncaught, or "none"
    quaterValues, deposits, governmentBorrowingRate,
    tax,           \* the value returned by calculate_flat_rate_tax
    taxCalls,      \* number of calls of calculate_flat_rate_tax so far
    startCapital, monthlyDeposit, rateOfReturn, yearsToSave, flatRateTax,
    monthlySave, yearlyReturn, years, flatratetax,
    totalSum, totalSaved, totalGained, compound, month, yearCounter,
    fcall,         \* a call of a formula: the method and its arguments
    fresult,       \* what that call gave: a value or an exception
    testLine       \* the line of the test script that runs next

vars == << pc, stdout, exitCode, stdin,
           propertyCost, downPayment, mortgageType, interestRate,
           loanAmount, amortizationNumberOfPayments, amortizationPayment,
           loanLeft, interestTotal, interest, i,
           raised, quaterValues, deposits, governmentBorrowingRate, tax, taxCalls,
           startCapital, monthlyDeposit, rateOfReturn, yearsToSave, flatRateTax,
           monthlySave, yearlyReturn, years, flatratetax,
           totalSum, totalSaved, totalGained, compound, month, yearCounter,
           fcall, fresult, testLine >>

taxVars == << quaterValues, deposits, governmentBorrowingRate, tax, taxCalls >>

compoundVars == << startCapital, monthlyDeposit, rateOfReturn, yearsToSave, flatRateTax >>

iskInputs == << monthlySave, yearlyReturn, years, flatratetax >>

iskLoop == << totalSum, totalSaved, totalGained, compound, month, yearCounter >>

formulaVars == << fcall, fresult >>

laterVars == << iskInputs, iskLoop, formulaVars, testLine >>

notMortgage == << raised, taxVars, compoundVars, laterVars >>

mortgageInputs == << propertyCost, downPayment, mortgageType, interestRate >>

mortgageDerived == << loanAmount, amortizationNumberOfPayments, amortizationPayment >>

mortgageLoop == << loanLeft, interestTotal, interest, i >>

(***************************************************************************)
(* mortgageCalculator.py                                                   *)
(***************************************************************************)
\* convert_to_percentage: "raise" when negative, else number / 100
PercentageRaises(number) == RLt(number, Zero)

convert_to_percentage(number) ==
    IF number = Zero THEN Zero ELSE RDiv(number, Whole(100))

\* mutation: the cost 0 passes the check
InvalidCost_Strict(cost) == RLt(cost, Zero)

InvalidCost(cost) == RLe(cost, Zero)

InvalidTerm(term) == RLe(term, Zero)

\* the two except clauses: print the message, exit(1)
Fail(msg) ==
    /\ pc' = "exited"
    /\ stdout' = Append(stdout, [kind |-> "error", msg |-> msg])
    /\ exitCode' = 1

ValueErrorMsg == "Could not convert string to float."

AskPropertyCost ==
    /\ pc = "askCost"
    /\ \E ans \in CostAnswers :
        /\ stdin' = Append(stdin, ans)
        /\ LET v == IF ans = Empty THEN Whole(2000000) ELSE ans.val IN
           IF ans = Text
           THEN Fail(ValueErrorMsg) /\ UNCHANGED propertyCost
           ELSE IF InvalidCost(v)
           THEN Fail("Invalid property cost.") /\ UNCHANGED propertyCost
           ELSE /\ propertyCost' = v
                /\ pc' = "askDown"
                /\ UNCHANGED << stdout, exitCode >>
    /\ UNCHANGED << downPayment, mortgageType, interestRate >>
    /\ UNCHANGED << mortgageDerived, mortgageLoop >>
    /\ UNCHANGED notMortgage

AskDownPayment ==
    /\ pc = "askDown"
    /\ \E ans \in DownAnswers :
        /\ stdin' = Append(stdin, ans)
        /\ IF ans = Text
           THEN Fail(ValueErrorMsg) /\ UNCHANGED downPayment
           ELSE IF ans # Empty /\ PercentageRaises(ans.val)
           THEN Fail("Percentage is outside interval.") /\ UNCHANGED downPayment
           ELSE /\ downPayment' = IF ans = Empty THEN Rat(15, 100)
                                  ELSE convert_to_percentage(ans.val)
                /\ pc' = "askTerm"
                /\ UNCHANGED << stdout, exitCode >>
    /\ UNCHANGED << propertyCost, mortgageType, interestRate >>
    /\ UNCHANGED << mortgageDerived, mortgageLoop >>
    /\ UNCHANGED notMortgage

AskMortgageType ==
    /\ pc = "askTerm"
    /\ \E ans \in TermAnswers :
        /\ stdin' = Append(stdin, ans)
        /\ LET v == IF ans = Empty THEN Whole(15) ELSE ans.val IN
           IF ans = Text
           THEN Fail(ValueErrorMsg) /\ UNCHANGED mortgageType
           ELSE IF InvalidTerm(v)
           THEN Fail("Invalid Mortgage type.") /\ UNCHANGED mortgageType
           ELSE /\ mortgageType' = v
                /\ pc' = "askRate"
                /\ UNCHANGED << stdout, exitCode >>
    /\ UNCHANGED << propertyCost, downPayment, interestRate >>
    /\ UNCHANGED << mortgageDerived, mortgageLoop >>
    /\ UNCHANGED notMortgage

AskInterestRate ==
    /\ pc = "askRate"
    /\ \E ans \in RateAnswers :
        /\ stdin' = Append(stdin, ans)
        /\ IF ans = Text
           THEN Fail(ValueErrorMsg) /\ UNCHANGED interestRate
           ELSE IF ans # Empty /\ PercentageRaises(ans.val)
           THEN Fail("Percentage is outside interval.") /\ UNCHANGED interestRate
           ELSE /\ interestRate' = IF ans = Empty THEN Rat(4, 100)
                                   ELSE convert_to_percentage(ans.val)
                /\ pc' = "derive"
                /\ UNCHANGED << stdout, exitCode >>
    /\ UNCHANGED << propertyCost, downPayment, mortgageType >>
    /\ UNCHANGED << mortgageDerived, mortgageLoop >>
    /\ UNCHANGED notMortgage

\* mutation: the down payment share is taken for the loan
LoanAmount_DownShare(cost, down) == RMul(cost, down)

LoanAmount(cost, down) == RMul(cost, RSub(One, down))

NumberOfPayments(term) == RMul(term, Whole(12))

AmortizationPayment(loan, payments) == RDiv(loan, payments)

\* lines 38-55: derived parameters, the two summary lines, the table header
Derive ==
    /\ pc = "derive"
    /\ loanAmount' = LoanAmount(propertyCost, downPayment)
    /\ amortizationNumberOfPayments' = NumberOfPayments(mortgageType)
    /\ amortizationPayment' =
           AmortizationPayment(loanAmount', amortizationNumberOfPayments')
    /\ stdout' = stdout \o
          << [kind |-> "downPayment", value |-> Ceil(RSub(propertyCost, loanAmount'))],
             [kind |-> "loanAmount", value |-> Ceil(loanAmount')],
             [kind |-> "header"] >>
    /\ loanLeft' = loanAmount'
    /\ interestTotal' = Zero
    /\ pc' = "loop"
    /\ UNCHANGED << exitCode, stdin, mortgageInputs, interest, i >>
    /\ UNCHANGED notMortgage

\* range(1, int(amortizationNumberOfPayments) + 1)
LastMonth(payments) == Trunc(payments)

\* mutation: the yearly rate is charged every month
MonthlyInterest_Yearly(left, rate) == RMul(left, rate)

MonthlyInterest(left, rate) == RMul(left, RDiv(rate, Whole(12)))

\* mutation: the balance is not clamped
Clamp_None(left) == left

Clamp(left) == IF RLe(left, Zero) THEN Zero ELSE left

\* lines 56-67: one iteration of the loop
MonthStep ==
    /\ pc = "loop"
    /\ i < LastMonth(amortizationNumberOfPayments)
    /\ i' = i + 1
    /\ interest' = MonthlyInterest(loanLeft, interestRate)
    /\ interestTotal' = RAdd(interestTotal, interest')
    /\ loanLeft' = Clamp(RSub(loanLeft, amortizationPayment))
    /\ stdout' = Append(stdout,
          [kind |-> "row", month |-> i',
           amortization |-> Ceil(amortizationPayment),
           interest |-> Ceil(interest'),
           payment |-> Ceil(RAdd(amortizationPayment, interest')),
           loanLeft |-> Ceil(loanLeft')])
    /\ UNCHANGED << pc, exitCode, stdin, mortgageInputs, mortgageDerived >>
    /\ UNCHANGED notMortgage

\* lines 69-74: the Total row, then the script ends
PrintTotal ==
    /\ pc = "loop"
    /\ i >= LastMonth(amortizationNumberOfPayments)
    /\ stdout' = Append(stdout,
          [kind |-> "total",
           amortization |-> Ceil(loanAmount),
           interest |-> Ceil(interestTotal),
           payment |-> Ceil(RAdd(loanAmount, interestTotal)),
           loanLeft |-> Ceil(loanLeft)])
    /\ pc' = "done"
    /\ exitCode' = 0
    /\ UNCHANGED << stdin, mortgageInputs, mortgageDerived, mortgageLoop >>
    /\ UNCHANGED notMortgage

IdleMortgage ==
    /\ propertyCost = Zero /\ downPayment = Zero
    /\ mortgageType = Zero /\ interestRate = Zero
    /\ loanAmount = Zero /\ amortizationNumberOfPayments = Zero
    /\ amortizationPayment = Zero
    /\ loanLeft = Zero /\ interestTotal = Zero /\ interest = Zero
    /\ i = 0

IdleTax ==
    /\ quaterValues = << >> /\ deposits = Zero
    /\ governmentBorrowingRate = Zero
    /\ tax = Zero /\ taxCalls = 0

IdleCompound ==
    /\ startCapital = Zero /\ monthlyDeposit = Zero
    /\ rateOfReturn = Zero /\ yearsToSave = 0 /\ flatRateTax = FALSE

NoCall ==
    [fn |-> "none", xs |-> << >>, ws |-> << >>, x |-> Zero, y |-> Zero,
     r |-> Zero, n |-> 0]

NoResult == [status |-> "none", val |-> Zero, val2 |-> Zero]

IdleIsk ==
    /\ monthlySave = Zero /\ yearlyReturn = Zero
    /\ years = 0 /\ flatratetax = FALSE
    /\ totalSum = Zero /\ totalSaved = Zero /\ totalGained = Zero
    /\ compound = Zero /\ month = 0 /\ yearCounter = 0

IdleFormulas == fcall = NoCall /\ fresult = NoResult

IdleTest == testLine = 0

IdleLater == IdleIsk /\ IdleFormulas /\ IdleTest

MortgageInit ==
    /\ pc = "askCost"
    /\ stdout = << >>
    /\ stdin = << >>
    /\ exitCode = -1
    /\ raised = "none"
    /\ IdleMortgage /\ IdleTax /\ IdleCompound /\ IdleLater

MortgageNext ==
    \/ AskPropertyCost
    \/ AskDownPayment
    \/ AskMortgageType
    \/ AskInterestRate
    \/ Derive
    \/ MonthStep
    \/ PrintTotal

Init == MortgageInit

Next == MortgageNext

Spec == Init /\ [][Next]_vars

(***************************************************************************)
(* investmentsavingsaccount.py                                             *)
(***************************************************************************)
RECURSIVE RSum(_)
RSum(seq) == IF seq = << >> THEN Zero ELSE RAdd(Head(seq), RSum(Tail(seq)))

\* mutation: the deposits are subtracted from the base
CapitalBase_Minus(values, dep) == RDiv(RSub(RSum(values), dep), Whole(4))

CapitalBase(values, dep) == RDiv(RAdd(RSum(values), dep), Whole(4))

\* mutation: no lower limit
ImputedIncome_NoFloor(rate) == RAdd(rate, Rat(1, 100))

ImputedIncome(rate) ==
    IF RLt(RAdd(rate, Rat(1, 100)), Rat(125, 10000))
    THEN Rat(125, 10000)
    ELSE RAdd(rate, Rat(1, 100))

calculate_flat_rate_tax(values, dep, rate) ==
    RMul(RMul(CapitalBase(values, dep), ImputedIncome(rate)), Rat(3, 10))

\* bounds of the arguments tried
MaxQuarter == 2

MaxDeposit == 1

MaxGbr == 6

QuarterValues == {Whole(100 * k) : k \in -1..MaxQuarter}

QuarterLists == UNION {[1..n -> QuarterValues] : n \in 0..4}

DepositValues == {Whole(50 * k) : k \in -1..MaxDeposit}

\* government borrowing rates in steps of 0.0005, and 0.0002
GbrValues == {Rat(5 * k, 10000) : k \in -1..MaxGbr} \cup {Rat(2, 10000)}

TaxInit ==
    /\ pc = "call"
    /\ stdout = << >>
    /\ stdin = << >>
    /\ exitCode = -1
    /\ raised = "none"
    /\ quaterValues \in QuarterLists
    /\ deposits \in DepositValues
    /\ governmentBorrowingRate \in GbrValues
    /\ tax = Zero
    /\ taxCalls = 0
    /\ IdleMortgage /\ IdleCompound /\ IdleLater

CallTax ==
    /\ pc = "call"
    /\ tax' = calculate_flat_rate_tax(quaterValues, deposits, governmentBorrowingRate)
    /\ taxCalls' = taxCalls + 1
    /\ pc' = "returned"
    /\ UNCHANGED << stdout, stdin, exitCode, raised >>
    /\ UNCHANGED << quaterValues, deposits, governmentBorrowingRate >>
    /\ UNCHANGED << mortgageInputs, mortgageDerived, mortgageLoop, laterVars, compoundVars >>

TaxNext == CallTax

SpecTax == TaxInit /\ [][TaxNext]_vars

(***************************************************************************)
(* formulas/financeFormulas.py: the methods the class defines.             *)
(***************************************************************************)
FinanceFormulasMethods ==
    {"annual_percentage_yield", "cost_of_goods_sold",
     "future_value_of_annuity",
     "future_value_of_annuity_with_continuous_compounding",
     "number_of_periods_for_future_value_of_annuity",
     "annuity_payment_present_value", "annuity_payment_future_value",
     "annuity_payment_factor", "present_value_of_annuity",
     "present_value_of_annuity_with_continuous_compounding",
     "number_of_periods_for_present_value_of_annuity",
     "present_value_annuity_factor", "present_value_of_annuity_due",
     "future_value_of_annuity_due",
     "annuity_due_payment_using_present_value",
     "annuity_due_payment_using_future_value", "asset_to_sales_ratio",
     "asset_turnover_ratio", "average_collection_period",
     "balloon_loan_payment", "bid_ask_spread", "bond_equivalent_yield",
     "book_value_per_share", "capital_asset_pricing_model",
     "capital_gains_yield", "compound_interest", "continuous_compounding",
     "contribution_margin", "current_ratio", "current_yield",
     "days_in_inventory", "debt_coverage_ratio", "debt_ratio",
     "debt_to_equity_ratio", "debt_to_income_ratio",
     "diluted_earnings_per_share", "discounted_payback_period",
     "dividend_payout_ratio", "dividend_yield", "dividends_per_share",
     "doubling_time", "doubling_time_with_continuous_compounding",
     "doubling_time_for_simple_interest", "earnings_per_share",
     "equity_multiplier", "equivalent_annual_annuity", "estimated_earnings",
     "free_cash_flow_to_equity", "free_cash_flow_to_firm", "future_value",
     "future_value_with_continuous_compounding", "future_value_factor",
     "geometric_mean_return", "gross_profit_margin",
     "future_value_of_growing_annuity",
     "growing_annuity_payment_from_present_value",
     "growing_annuity_payment_from_future_value",
     "present_value_of_a_growing_annuity",
     "present_value_of_growing_perpetuity", "holding_period_return",
     "interest_coverage_ratio", "inventory_turnover_ratio",
     "interest_rate_parity", "balloon_balance_of_a_loan", "loan_payment",
     "remaining_balance_on_loan", "loan_to_deposit_ratio",
     "loan_to_value_ratio", "net_asset_value", "net_interest_income",
     "net_interest_margin", "net_interest_spread", "net_present_value",
     "net_profit_margin", "net_working_capital",
     "number_of_periods_for_present_value_to_reach_future_value",
     "operating_margin", "payback_period", "present_value_of_perpetuity",
     "perpetuity_payment", "perpetuity_yield", "preferred_stock_value",
     "present_value", "present_value_factor",
     "present_value_with_continuous_compounding",
     "present_value_with_continuous_compounding_factor",
     "price_to_book_value_ratio", "price_to_cash_flows_ratio",
     "price_to_dividend_ratio", "price_to_earnings_ratio",
     "price_to_sales_ratio", "profitability_index", "quick_ratio",
     "rate_of_inflation", "real_rate_of_return",
     "receivables_turnover_ratio", "retention_ratio", "return_on_assets",
     "return_on_equity", "return_on_investment", "risk_premium",
     "rule_of_72", "simple_interest",
     "present_value_of_stock_with_constant_growth",
     "present_value_of_stock_with_zero_growth", "tax_equivalent_yield",
     "total_stock_return", "weighted_average", "yield_to_maturity",
     "zero_coupon_bond_value", "zero_coupon_bond_effective_yield"}

(***************************************************************************)
(* compoundInterestCalculator.py                                           *)
(*                                                                         *)
(* The imports of lines 3-4 are taken to resolve.                          *)
(***************************************************************************)
Word(w) == [kind |-> w, val |-> Zero]

MaxStart == 1

MaxMonthly == 1

MaxReturn == 1

MaxYears == 3

CompoundAnswers(k) ==
    CASE k = 1 -> {Empty, Text} \cup {Num(Whole(1000 * n)) : n \in 0..MaxStart}
      [] k = 2 -> {Empty, Text} \cup {Num(Whole(100 * n)) : n \in 0..MaxMonthly}
      [] k = 3 -> {Empty, Text} \cup {Num(Whole(8 * n)) : n \in 0..MaxReturn}
      [] k = 4 -> {Empty, Text, Num(Rat(3, 2))} \cup {Num(Whole(n)) : n \in -1..MaxYears}
      [] k = 5 -> {Empty, Text, Word("y"), Word("Y"), Word("n")}

CompoundInit ==
    /\ pc = "prompt"
    /\ stdout = << >>
    /\ stdin = << >>
    /\ exitCode = -1
    /\ raised = "none"
    /\ IdleMortgage /\ IdleTax /\ IdleCompound /\ IdleLater

\* an exception nobody catches: traceback, exit status 1
Crash(exception) ==
    /\ pc' = "crashed"
    /\ raised' = exception
    /\ exitCode' = 1

\* lines 15-19: the five prompts
CompoundPrompt ==
    /\ pc = "prompt"
    /\ Len(stdin) < 5
    /\ \E ans \in CompoundAnswers(Len(stdin) + 1) : stdin' = Append(stdin, ans)
    /\ UNCHANGED << pc, stdout, exitCode, raised >>
    /\ UNCHANGED << mortgageInputs, mortgageDerived, mortgageLoop, laterVars, taxVars, compoundVars >>

\* float(answer) raises ValueError
FloatRaises(ans) == ans.kind \notin {"empty", "num"}

\* int(answer) raises ValueError: only whole-number literals are parsed
IntRaises(ans) == ans.kind # "empty" /\ ~(ans.kind = "num" /\ ans.val[2] = 1)

Lower(w) == IF w = "Y" THEN "y" ELSE w

\* lines 22-26: string -> number/bool
CompoundConvert ==
    /\ pc = "prompt"
    /\ Len(stdin) = 5
    /\ IF FloatRaises(stdin[1]) \/ FloatRaises(stdin[2]) \/ FloatRaises(stdin[3])
          \/ IntRaises(stdin[4])
       THEN /\ Crash("ValueError")
            /\ UNCHANGED compoundVars
       ELSE /\ startCapital' = IF stdin[1] = Empty THEN Whole(250000) ELSE stdin[1].val
            /\ monthlyDeposit' = IF stdin[2] = Empty THEN Whole(5000) ELSE stdin[2].val
            /\ rateOfReturn' = IF stdin[3] = Empty THEN Rat(8, 100)
                               ELSE RDiv(stdin[3].val, Whole(100))
            /\ yearsToSave' = IF stdin[4] = Empty THEN 20 ELSE stdin[4].val[1]
            /\ flatRateTax' = (Lower(stdin[5].kind) = "y" \/ stdin[5] = Empty)
            /\ pc' = "monthlyRate"
            /\ UNCHANGED << exitCode, raised >>
    /\ UNCHANGED << stdout, stdin >>
    /\ UNCHANGED << mortgageInputs, mortgageDerived, mortgageLoop, laterVars, taxVars >>

\* line 28: fm.average_rate_of_return_per_year(rateOfReturn + 1, 12); the
\* attribute lookup on the FinanceFormulas object raises AttributeError
\* when the class defines no such method
CompoundMonthlyRate ==
    /\ pc = "monthlyRate"
    /\ IF "average_rate_of_return_per_year" \in FinanceFormulasMethods
       THEN pc' = "table" /\ UNCHANGED << exitCode, raised >>
       ELSE Crash("AttributeError")
    /\ UNCHANGED << stdout, stdin >>
    /\ UNCHANGED << mortgageInputs, mortgageDerived, mortgageLoop, laterVars, taxVars, compoundVars >>

CompoundNext ==
    \/ CompoundPrompt
    \/ CompoundConvert
    \/ CompoundMonthlyRate

SpecCompound == CompoundInit /\ [][CompoundNext]_vars

(***************************************************************************)
(* formulas/financeFormulas.py: the formulas the calculators use.          *)
(***************************************************************************)
\* b ** n for a whole exponent n (b # 0 when n < 0)
RECURSIVE Pow(_, _)
Pow(b, n) ==
    IF n = 0 THEN One
    ELSE IF n > 0 THEN RMul(b, Pow(b, n - 1))
    ELSE RInv(Pow(b, -n))

\* 0 ** n with n < 0 raises ZeroDivisionError
PowRaises(b, n) == b = Zero /\ n < 0

\* mutation: the principal is not subtracted
compound_interest_Total(principal, ratePerPeriod, numberOfPeriods) ==
    RMul(principal, Pow(RAdd(One, ratePerPeriod), numberOfPeriods))

compound_interest(principal, ratePerPeriod, numberOfPeriods) ==
    RMul(principal, RSub(Pow(RAdd(One, ratePerPeriod), numberOfPeriods), One))

(***************************************************************************)
(* iskContinuousCompoundingWithMonthlySave.py                              *)
(*                                                                         *)
(* The imports of lines 3-4 are taken to resolve.  The defaults of the     *)
(* start capital (100000), the monthly save (2000) and the years (40) are  *)
(* not among the answers tried: the exact fractions of a run with tax      *)
(* outgrow the integers of the checker, at the latest in the third year.   *)
(***************************************************************************)
MaxIskStart == 1

MaxIskSave == 1

MaxIskReturn == 1

MaxIskYears == 1

IskAnswers(k) ==
    CASE k = 1 -> {Text} \cup {Num(Whole(1000 * n)) : n \in 0..MaxIskStart}
      [] k = 2 -> {Text} \cup {Num(Whole(100 * n)) : n \in 0..MaxIskSave}
      [] k = 3 -> {Empty, Text} \cup {Num(Whole(100 * n)) : n \in 0..MaxIskReturn}
      [] k = 4 -> {Text, Num(Rat(3, 2)), Num(Whole(2))}
                     \cup {Num(Whole(n)) : n \in -1..MaxIskYears}
      [] k = 5 -> {Empty, Text, Word("y"), Word("Y"), Word("n")}

IskInit ==
    /\ pc = "ask"
    /\ stdout = << >>
    /\ stdin = << >>
    /\ exitCode = -1
    /\ raised = "none"
    /\ IdleMortgage /\ IdleTax /\ IdleCompound /\ IdleLater

\* lines 15-26: each answer is converted as soon as it is read
IskAsk ==
    /\ pc = "ask"
    /\ Len(stdin) < 5
    /\ \E ans \in IskAnswers(Len(stdin) + 1) :
        LET k == Len(stdin) + 1 IN
        /\ stdin' = Append(stdin, ans)
        /\ IF (k \in {1, 2, 3} /\ FloatRaises(ans)) \/ (k = 4 /\ IntRaises(ans))
           THEN /\ Crash("ValueError")
                /\ UNCHANGED << startCapital, iskInputs >>
           ELSE /\ startCapital' =
                      IF k # 1 THEN startCapital
                      ELSE IF ans = Empty THEN Whole(100000) ELSE ans.val
                /\ monthlySave' =
                      IF k # 2 THEN monthlySave
                      ELSE IF ans = Empty THEN Whole(2000) ELSE ans.val
                /\ yearlyReturn' =
                      IF k # 3 THEN yearlyReturn
                      ELSE IF ans = Empty THEN Rat(8, 100)
                      ELSE RDiv(ans.val, Whole(100))
                /\ years' =
                      IF k # 4 THEN years
                      ELSE IF ans = Empty THEN 40 ELSE ans.val[1]
                /\ flatratetax' =
                      IF k # 5 THEN flatratetax
                      ELSE (Lower(ans.kind) = "y" \/ ans = Empty)
                /\ pc' = IF k = 5 THEN "header" ELSE "ask"
                /\ UNCHANGED << exitCode, raised >>
    /\ UNCHANGED << stdout, iskLoop, taxVars, formulaVars, testLine >>
    /\ UNCHANGED << mortgageInputs, mortgageDerived, mortgageLoop >>
    /\ UNCHANGED << monthlyDeposit, rateOfReturn, yearsToSave, flatRateTax >>

\* lines 28-48: the running totals, the summary and the table header
IskHeader ==
    /\ pc = "header"
    /\ totalSum' = startCapital
    /\ totalSaved' = startCapital
    /\ totalGained' = Zero
    /\ yearCounter' = 1
    /\ stdout' = stdout \o
          << [kind |-> "summary", startCapital |-> Trunc(startCapital),
              monthlySave |-> Trunc(monthlySave), years |-> years,
              flatratetax |-> flatratetax],
             [kind |-> "header"] >>
    /\ pc' = "loop"
    /\ UNCHANGED << stdin, exitCode, raised, compound, month >>
    /\ UNCHANGED << iskInputs, taxVars, compoundVars, formulaVars, testLine >>
    /\ UNCHANGED << mortgageInputs, mortgageDerived, mortgageLoop >>

\* line 60: the four values handed to the tax function
IskQuaterValues(sum, gain) ==
    [q \in 1..4 |-> RAdd(sum, RMul(RDiv(gain, Whole(3)), Whole(q - 1)))]

\* "{:.2f}".format(x): x in hundredths, to the nearest
Hundredths(x) == LET y == RAdd(RMul(x, Whole(100)), Rat(1, 2)) IN y[1] \div y[2]

\* lines 49-78: one iteration of the loop
IskMonth ==
    /\ pc = "loop"
    /\ month < years * 12
    /\ month' = month + 1
    /\ totalSaved' = RAdd(totalSaved, monthlySave)
    /\ LET sum == RAdd(totalSum, monthlySave) IN
       IF month' % 12 = 0 /\ month' # 0
       THEN LET gain == compound_interest(sum, yearlyReturn, 1)
                values == IskQuaterValues(sum, gain)
                t == calculate_flat_rate_tax(values, Zero, Rat(2, 10000))
            IN  /\ compound' = gain
                /\ totalGained' = RAdd(totalGained, gain)
                /\ quaterValues' = values
                /\ deposits' = Zero
                /\ governmentBorrowingRate' = Rat(2, 10000)
                /\ tax' = t
                /\ taxCalls' = taxCalls + 1
                /\ totalSum' = IF flatratetax THEN RAdd(sum, RSub(gain, t))
                               ELSE RAdd(sum, gain)
                /\ IF gain = Zero
                   THEN \* line 72: tax / compound
                        /\ Crash("ZeroDivisionError")
                        /\ UNCHANGED << stdout, yearCounter >>
                   ELSE /\ stdout' = Append(stdout,
                              [kind |-> "year", year |-> yearCounter,
                               gained |-> Trunc(gain),
                               salary |-> Trunc(RDiv(gain, Whole(12))),
                               tax |-> Trunc(t),
                               taxPercent |-> Hundredths(RMul(RDiv(t, gain), Whole(100))),
                               totSaved |-> Trunc(totalSaved'),
                               totGained |-> Trunc(totalGained'),
                               totCapital |-> Trunc(totalSum')])
                        /\ yearCounter' = yearCounter + 1
                        /\ UNCHANGED << pc, exitCode, raised >>
       ELSE /\ totalSum' = sum
            /\ UNCHANGED << pc, exitCode, raised, stdout, yearCounter >>
            /\ UNCHANGED << compound, totalGained, taxVars >>
    /\ UNCHANGED << stdin, iskInputs, compoundVars, formulaVars, testLine >>
    /\ UNCHANGED << mortgageInputs, mortgageDerived, mortgageLoop >>

\* the range is exhausted: the script ends
IskEnd ==
    /\ pc = "loop"
    /\ month >= years * 12
    /\ pc' = "done"
    /\ exitCode' = 0
    /\ UNCHANGED << stdout, stdin, raised, notMortgage >>
    /\ UNCHANGED << mortgageInputs, mortgageDerived, mortgageLoop >>

IskNext ==
    \/ IskAsk
    \/ IskHeader
    \/ IskMonth
    \/ IskEnd

SpecIsk == IskInit /\ [][IskNext]_vars

(***************************************************************************)
(* formulas/financeFormulas.py: the formulas called directly.  A formula   *)
(* is a value and, where an operation of it can fail, the condition under  *)
(* which it raises ZeroDivisionError.                                      *)
(***************************************************************************)
\* mutation: the exponent is the number of periods plus one
future_value_OneMore(initialCashFlow, rate, numberOfPeriods) ==
    RMul(initialCashFlow, Pow(RAdd(One, rate), numberOfPeriods + 1))

future_value(initialCashFlow, rate, numberOfPeriods) ==
    RMul(initialCashFlow, Pow(RAdd(One, rate), numberOfPeriods))

future_value_raises(initialCashFlow, rate, numberOfPeriods) ==
    PowRaises(RAdd(One, rate), numberOfPeriods)

present_value(cashFlowAtFirstPeriod, rate, numberOfPeriods) ==
    RDiv(cashFlowAtFirstPeriod, Pow(RAdd(One, rate), numberOfPeriods))

present_value_raises(cashFlowAtFirstPeriod, rate, numberOfPeriods) ==
    \/ PowRaises(RAdd(One, rate), numberOfPeriods)
    \/ Pow(RAdd(One, rate), numberOfPeriods) = Zero

future_value_of_annuity(periodicPayment, ratePerPeriod, numberOfPeriods) ==
    RMul(periodicPayment,
         RDiv(RSub(Pow(RAdd(One, ratePerPeriod), numberOfPeriods), One),
              ratePerPeriod))

future_value_of_annuity_raises(periodicPayment, ratePerPeriod, numberOfPeriods) ==
    \/ PowRaises(RAdd(One, ratePerPeriod), numberOfPeriods)
    \/ ratePerPeriod = Zero

present_value_of_annuity(periodicPayment, ratePerPeriod, numberOfPeriods) ==
    RMul(periodicPayment,
         RDiv(RSub(One, Pow(RAdd(One, ratePerPeriod), -numberOfPeriods)),
              ratePerPeriod))

present_value_of_annuity_raises(periodicPayment, ratePerPeriod, numberOfPeriods) ==
    \/ PowRaises(RAdd(One, ratePerPeriod), -numberOfPeriods)
    \/ ratePerPeriod = Zero

annuity_payment_present_value(presentValue, ratePerPeriod, numberOfPeriods) ==
    RDiv(RMul(presentValue, ratePerPeriod),
         RSub(One, Pow(RAdd(One, ratePerPeriod), -numberOfPeriods)))

annuity_payment_present_value_raises(presentValue, ratePerPeriod, numberOfPeriods) ==
    \/ PowRaises(RAdd(One, ratePerPeriod), -numberOfPeriods)
    \/ Pow(RAdd(One, ratePerPeriod), -numberOfPeriods) = One

\* mutation: the future value is not multiplied by the rate
annuity_payment_future_value_NoRate(futureValue, ratePerPeriod, numberOfPeriods) ==
    RDiv(futureValue, RSub(Pow(RAdd(One, ratePerPeriod), numberOfPeriods), One))

annuity_payment_future_value(futureValue, ratePerPeriod, numberOfPeriods) ==
    RDiv(RMul(futureValue, ratePerPeriod),
         RSub(Pow(RAdd(One, ratePerPeriod), numberOfPeriods), One))

annuity_payment_future_value_raises(futureValue, ratePerPeriod, numberOfPeriods) ==
    \/ PowRaises(RAdd(One, ratePerPeriod), numberOfPeriods)
    \/ Pow(RAdd(One, ratePerPeriod), numberOfPeriods) = One

\* lines 684-686: root = 1; root *= (1 + rateOfReturn)
RECURSIVE geometric_root(_)
geometric_root(ratesOfReturn) ==
    IF ratesOfReturn = << >> THEN One
    ELSE RMul(geometric_root(SubSeq(ratesOfReturn, 1, Len(ratesOfReturn) - 1)),
              RAdd(One, ratesOfReturn[Len(ratesOfReturn)]))

\* x ** (1 / n): the n-th root, where it is a fraction of RootCandidates
RootCandidates == {Rat(p, 2) : p \in 0..8}

HasRoot(x, n) == \E y \in RootCandidates : Pow(y, n) = x

NthRoot(x, n) == CHOOSE y \in RootCandidates : Pow(y, n) = x

\* mutation: the empty list gives the untouched root
geometric_mean_return_Root(ratesOfReturn) ==
    IF Len(ratesOfReturn) > 0
    THEN RSub(NthRoot(geometric_root(ratesOfReturn), Len(ratesOfReturn)), One)
    ELSE geometric_root(ratesOfReturn)

geometric_mean_return(ratesOfReturn) ==
    IF Len(ratesOfReturn) > 0
    THEN RSub(NthRoot(geometric_root(ratesOfReturn), Len(ratesOfReturn)), One)
    ELSE Zero

\* lines 788-790: base = 1; base *= (1 + periodReturn)
RECURSIVE holding_base(_)
holding_base(percentagePeriodReturns) ==
    IF percentagePeriodReturns = << >> THEN One
    ELSE RMul(holding_base(SubSeq(percentagePeriodReturns, 1,
                                  Len(percentagePeriodReturns) - 1)),
              RAdd(One, percentagePeriodReturns[Len(percentagePeriodReturns)]))

\* mutation: the 1 is not subtracted
holding_period_return_Base(percentagePeriodReturns) ==
    IF Len(percentagePeriodReturns) > 0
    THEN holding_base(percentagePeriodReturns)
    ELSE Zero

holding_period_return(percentagePeriodReturns) ==
    IF Len(percentagePeriodReturns) > 0
    THEN RSub(holding_base(percentagePeriodReturns), One)
    ELSE Zero

\* mutation: the first cash flow is not discounted
DiscountedCashFlow_FromZero(cashFlows, discountRate, count) ==
    RDiv(cashFlows[count + 1], Pow(RAdd(One, discountRate), count))

\* line 965, for the index count of enumerate (from 0)
DiscountedCashFlow(cashFlows, discountRate, count) ==
    RDiv(cashFlows[count + 1], Pow(RAdd(One, discountRate), count + 1))

RECURSIVE DiscountedSum(_, _, _)
DiscountedSum(cashFlows, discountRate, upto) ==
    IF upto = 0 THEN Zero
    ELSE RAdd(DiscountedSum(cashFlows, discountRate, upto - 1),
              DiscountedCashFlow(cashFlows, discountRate, upto - 1))

\* mutation: the initial investment is not subtracted
net_present_value_NoInvestment(initialInvestment, cashFlows, discountRate) ==
    DiscountedSum(cashFlows, discountRate, Len(cashFlows))

net_present_value(initialInvestment, cashFlows, discountRate) ==
    RAdd(RNeg(initialInvestment), DiscountedSum(cashFlows, discountRate, Len(cashFlows)))

net_present_value_raises(initialInvestment, cashFlows, discountRate) ==
    Len(cashFlows) > 0 /\ RAdd(One, discountRate) = Zero

\* mutation: the plain mean, divided by the number of weights
WeightTotal_Count(weights) == Whole(Len(weights))

WeightTotal(weights) == RSum(weights)

RECURSIVE WeightedSum(_, _, _)
WeightedSum(weights, values, upto) ==
    IF upto = 0 THEN Zero
    ELSE RAdd(WeightedSum(weights, values, upto - 1),
              RMul(values[upto], weights[upto]))

weighted_average(weights, values) ==
    RDiv(WeightedSum(weights, values, Len(values)), WeightTotal(weights))

\* values[i]*weights[i] fails past the end of weights; sum(weights) may be 0
weighted_average_raises(weights, values) ==
    IF Len(values) > Len(weights) THEN "IndexError"
    ELSE IF WeightTotal(weights) = Zero THEN "ZeroDivisionError"
    ELSE "none"

loan_payment(presentValue, ratePerPeriod, numberOfPeriods) ==
    RDiv(RMul(ratePerPeriod, presentValue),
         RSub(One, Pow(RAdd(One, ratePerPeriod), -numberOfPeriods)))

loan_payment_raises(presentValue, ratePerPeriod, numberOfPeriods) ==
    \/ PowRaises(RAdd(One, ratePerPeriod), -numberOfPeriods)
    \/ Pow(RAdd(One, ratePerPeriod), -numberOfPeriods) = One

\* mutation: the balance does not grow with the rate
remaining_balance_on_loan_Flat(presentValue, payment, ratePerPayment, numberOfPayments) ==
    RSub(presentValue,
         RMul(payment,
              RDiv(RSub(Pow(RAdd(One, ratePerPayment), numberOfPayments), One),
                   ratePerPayment)))

remaining_balance_on_loan(presentValue, payment, ratePerPayment, numberOfPayments) ==
    RSub(RMul(presentValue, Pow(RAdd(One, ratePerPayment), numberOfPayments)),
         RMul(payment,
              RDiv(RSub(Pow(RAdd(One, ratePerPayment), numberOfPayments), One),
                   ratePerPayment)))

remaining_balance_on_loan_raises(presentValue, payment, ratePerPayment, numberOfPayments) ==
    \/ PowRaises(RAdd(One, ratePerPayment), numberOfPayments)
    \/ ratePerPayment = Zero

balloon_balance_of_a_loan(presentValue, payment, ratePerPayment, numberOfPayments) ==
    RSub(RMul(presentValue, Pow(RAdd(One, ratePerPayment), numberOfPayments)),
         RMul(payment,
              RDiv(RSub(Pow(RAdd(One, ratePerPayment), numberOfPayments), One),
                   ratePerPayment)))

balloon_balance_of_a_loan_raises(presentValue, payment, ratePerPayment, numberOfPayments) ==
    \/ PowRaises(RAdd(One, ratePerPayment), numberOfPayments)
    \/ ratePerPayment = Zero

\* mutation: the share of the investment is added
PaybackInner_Plus(initialInvestment, rate, periodicCashFlow) ==
    RAdd(One, RDiv(RMul(initialInvestment, rate), periodicCashFlow))

\* line 484: 1 - ((initialInvestment * rate) / periodicCashFlow)
PaybackInner(initialInvestment, rate, periodicCashFlow) ==
    RSub(One, RDiv(RMul(initialInvestment, rate), periodicCashFlow))

\* math.log(x) raises ValueError unless x > 0
LogRaises(x) == RLe(x, Zero)

\* discounted_payback_period is log(a) / log(b): the model has no
\* logarithms and keeps its two arguments a and b, and what the evaluation
\* raises, in the order of the evaluation.
discounted_payback_period_raises(initialInvestment, rate, periodicCashFlow) ==
    IF periodicCashFlow = Zero THEN "ZeroDivisionError"
    ELSE IF PaybackInner(initialInvestment, rate, periodicCashFlow) = Zero
    THEN "ZeroDivisionError"
    ELSE IF LogRaises(RInv(PaybackInner(initialInvestment, rate, periodicCashFlow)))
    THEN "ValueError"
    ELSE IF LogRaises(RAdd(One, rate)) THEN "ValueError"
    ELSE IF RAdd(One, rate) = One THEN "ZeroDivisionError"
    ELSE "none"

discounted_payback_period_logs(initialInvestment, rate, periodicCashFlow) ==
    << RInv(PaybackInner(initialInvestment, rate, periodicCashFlow)),
       RAdd(One, rate) >>

(***************************************************************************)
(* Calls of the formulas.  A call is made once; some callers make a second *)
(* call on the result of the first (val, then val2).                       *)
(***************************************************************************)
MaxLen == 3

MaxReturnHalves == 2

MaxCashFlow == 1

MaxAmount == 2

MaxPeriods == 2

MaxWeight == 2

MaxScale == 3

Lists(S, len) == UNION {[1..n -> S] : n \in 0..len}

\* period returns -50 % .. and 300 %
ReturnValues == {Rat(k, 2) : k \in -1..MaxReturnHalves} \cup {Whole(3)}

CashFlowValues == {Whole(100 * k) : k \in -1..MaxCashFlow}

AmountValues == {Whole(100 * k) : k \in -1..MaxAmount}

\* rates -100 %, -50 %, 0, 25 %, 100 %
RateValues == {Whole(-1), Rat(-1, 2), Zero, Rat(1, 4), One}

WeightValues == {Rat(k, 2) : k \in -1..MaxWeight}

Call(fn) == [NoCall EXCEPT !.fn = fn]

FormulaCalls ==
    {[Call("geometric_mean_return") EXCEPT !.xs = l] :
        l \in {m \in Lists(ReturnValues, MaxLen) :
                  Len(m) = 0 \/ HasRoot(geometric_root(m), Len(m))}}
    \cup {[Call("holding_period_return") EXCEPT !.xs = l] :
        l \in Lists(ReturnValues, MaxLen)}
    \cup {[Call("net_present_value") EXCEPT !.x = a, !.xs = l, !.r = d] :
        a \in {Zero, Whole(400)}, l \in Lists(CashFlowValues, MaxLen), d \in RateValues}
    \cup {[Call("weighted_average") EXCEPT !.ws = w, !.xs = v, !.n = c] :
        w \in Lists(WeightValues, 2), v \in Lists(CashFlowValues, 2), c \in 1..MaxScale}
    \cup {[Call(f) EXCEPT !.x = a, !.r = d, !.n = k] :
        f \in {"present_of_future", "future_of_present",
               "payment_of_present_annuity", "payment_of_future_annuity"},
        a \in AmountValues, d \in RateValues, k \in -MaxPeriods..MaxPeriods}
    \cup {[Call(f) EXCEPT !.x = a, !.r = d, !.n = k] :
        f \in {"loan_payment", "annuity_payment_present_value",
               "present_value_of_annuity", "future_value_of_annuity",
               "remaining_balance_of_loan_payment"},
        a \in AmountValues, d \in RateValues, k \in -MaxPeriods..MaxPeriods}
    \cup {[Call("balloon_and_remaining_balance") EXCEPT
               !.x = a, !.y = b, !.r = d, !.n = k] :
        a \in AmountValues, b \in CashFlowValues, d \in RateValues,
        k \in -MaxPeriods..MaxPeriods}
    \cup {[Call("discounted_payback_period") EXCEPT !.x = a, !.r = d, !.y = b] :
        a \in AmountValues, d \in RateValues, b \in CashFlowValues}

Returned(v, w) == [status |-> "ok", val |-> v, val2 |-> w]

Raised(e, v) == [status |-> e, val |-> v, val2 |-> Zero]

\* the test script, lines 12-127: the method each assert calls
TestAsserts ==
    << "annual_percentage_yield", "break_even_point", "cost_of_goods_sold",
       "future_value_of_annuity",
       "future_value_of_annuity_with_continuous_compounding",
       "number_of_periods_for_future_value_of_annuity",
       "annuity_payment_present_value", "annuity_payment_future_value",
       "annuity_payment_factor", "present_value_of_annuity",
       "present_value_of_annuity_with_continuous_compounding",
       "number_of_periods_for_present_value_of_annuity",
       "present_value_annuity_factor", "present_value_of_annuity_due",
       "future_value_of_annuity_due",
       "annuity_due_payment_using_present_value",
       "annuity_due_payment_using_future_value", "asset_to_sales_ratio",
       "asset_turnover_ratio", "average_collection_period",
       "balloon_loan_payment", "bid_ask_spread", "bond_equivalent_yield",
       "book_value_per_share", "capital_asset_pricing_model",
       "capital_gains_yield", "compound_interest", "continuous_compounding",
       "contribution_margin", "current_ratio", "current_yield",
       "days_in_inventory", "debt_coverage_ratio", "debt_ratio",
       "debt_to_equity_ratio", "debt_to_income_ratio",
       "diluted_earnings_per_share", "discounted_payback_period",
       "dividend_payout_ratio", "dividend_yield", "dividends_per_share",
       "doubling_time", "doubling_time_with_continuous_compounding",
       "doubling_time_for_simple_interest", "earnings_growth_rate",
       "earnings_per_share", "earnings_per_share_growth_rate",
       "equity_multiplier", "equivalent_annual_annuity", "estimated_earnings",
       "free_cash_flow_to_equity", "free_cash_flow_to_firm", "future_value",
       "future_value_with_continuous_compounding", "future_value_factor",
       "geometric_mean_return", "gross_profit", "gross_profit_margin",
       "future_value_of_growing_annuity",
       "growing_annuity_payment_from_present_value",
       "growing_annuity_payment_from_future_value",
       "present_value_of_a_growing_annuity",
       "present_value_of_growing_perpetuity", "holding_period_return",
       "interest_coverage_ratio", "inventory_turnover_ratio",
       "interest_rate_parity", "balloon_balance_of_a_loan", "loan_payment",
       "remaining_balance_on_loan", "loan_to_deposit_ratio",
       "loan_to_value_ratio", "net_asset_value", "net_interest_income",
       "net_interest_margin", "net_interest_spread", "net_present_value",
       "net_profit_margin", "net_working_capital",
       "number_of_periods_for_present_value_to_reach_future_value",
       "operating_margin", "payback_period", "present_value_of_perpetuity",
       "perpetuity_payment", "perpetuity_yield", "preferred_stock_value",
       "present_value", "present_value_factor",
       "present_value_with_continuous_compounding",
       "present_value_with_continuous_compounding_factor",
       "price_to_book_value_ratio", "price_to_cash_flows_ratio",
       "price_to_dividend_ratio", "price_to_earnings_ratio",
       "price_to_earnings_to_growth_ratio", "price_to_sales_ratio",
       "profitability_index", "quick_ratio", "rate_of_inflation",
       "real_rate_of_return", "receivables_turnover_ratio", "retention_ratio",
       "return_on_assets", "return_on_equity", "return_on_investment",
       "risk_premium", "rule_of_72", "simple_interest",
       "present_value_of_stock_with_constant_growth",
       "present_value_of_stock_with_zero_growth", "tax_equivalent_yield",
       "total_stock_return", "weighted_average", "yield_to_maturity",
       "zero_coupon_bond_value", "zero_coupon_bond_effective_yield" >>

FormulasInit ==
    /\ pc = "formulas"
    /\ stdout = << >>
    /\ stdin = << >>
    /\ exitCode = -1
    /\ raised = "none"
    /\ fcall \in FormulaCalls
    /\ fresult = NoResult
    /\ testLine = 0
    /\ IdleMortgage /\ IdleTax /\ IdleCompound /\ IdleIsk

FormulaFrame ==
    /\ UNCHANGED << pc, stdout, stdin, exitCode, raised, fcall, testLine >>
    /\ UNCHANGED << mortgageInputs, mortgageDerived, mortgageLoop >>
    /\ UNCHANGED << taxVars, compoundVars, iskInputs, iskLoop >>

CallGeometricMeanReturn ==
    /\ fcall.fn = "geometric_mean_return" /\ fresult = NoResult
    /\ fresult' = Returned(geometric_mean_return(fcall.xs), Zero)
    /\ FormulaFrame

CallHoldingPeriodReturn ==
    /\ fcall.fn = "holding_period_return" /\ fresult = NoResult
    /\ fresult' = Returned(holding_period_return(fcall.xs), Zero)
    /\ FormulaFrame

CallNetPresentValue ==
    /\ fcall.fn = "net_present_value" /\ fresult = NoResult
    /\ fresult' = IF net_present_value_raises(fcall.x, fcall.xs, fcall.r)
                  THEN Raised("ZeroDivisionError", Zero)
                  ELSE Returned(net_present_value(fcall.x, fcall.xs, fcall.r), Zero)
    /\ FormulaFrame

Scaled(weights, c) == [k \in 1..Len(weights) |-> RMul(Whole(c), weights[k])]

\* weighted_average(weights, values), then the same with every weight * n
CallWeightedAverage ==
    /\ fcall.fn = "weighted_average" /\ fresult = NoResult
    /\ fresult' =
          IF weighted_average_raises(fcall.ws, fcall.xs) # "none"
          THEN Raised(weighted_average_raises(fcall.ws, fcall.xs), Zero)
          ELSE Returned(weighted_average(fcall.ws, fcall.xs),
                        weighted_average(Scaled(fcall.ws, fcall.n), fcall.xs))
    /\ FormulaFrame

\* present_value(future_value(x, r, n), r, n)
CallPresentOfFuture ==
    /\ fcall.fn = "present_of_future" /\ fresult = NoResult
    /\ fresult' =
          IF future_value_raises(fcall.x, fcall.r, fcall.n)
          THEN Raised("ZeroDivisionError", Zero)
          ELSE LET fv == future_value(fcall.x, fcall.r, fcall.n) IN
               IF present_value_raises(fv, fcall.r, fcall.n)
               THEN Raised("ZeroDivisionError", fv)
               ELSE Returned(fv, present_value(fv, fcall.r, fcall.n))
    /\ FormulaFrame

\* future_value(present_value(x, r, n), r, n)
CallFutureOfPresent ==
    /\ fcall.fn = "future_of_present" /\ fresult = NoResult
    /\ fresult' =
          IF present_value_raises(fcall.x, fcall.r, fcall.n)
          THEN Raised("ZeroDivisionError", Zero)
          ELSE LET pv == present_value(fcall.x, fcall.r, fcall.n) IN
               IF future_value_raises(pv, fcall.r, fcall.n)
               THEN Raised("ZeroDivisionError", pv)
               ELSE Returned(pv, future_value(pv, fcall.r, fcall.n))
    /\ FormulaFrame

\* annuity_payment_present_value(present_value_of_annuity(P, r, n), r, n)
CallPaymentOfPresentAnnuity ==
    /\ fcall.fn = "payment_of_present_annuity" /\ fresult = NoResult
    /\ fresult' =
          IF present_value_of_annuity_raises(fcall.x, fcall.r, fcall.n)
          THEN Raised("ZeroDivisionError", Zero)
          ELSE LET pva == present_value_of_annuity(fcall.x, fcall.r, fcall.n) IN
               IF annuity_payment_present_value_raises(pva, fcall.r, fcall.n)
               THEN Raised("ZeroDivisionError", pva)
               ELSE Returned(pva, annuity_payment_present_value(pva, fcall.r, fcall.n))
    /\ FormulaFrame

\* annuity_payment_future_value(future_value_of_annuity(P, r, n), r, n)
CallPaymentOfFutureAnnuity ==
    /\ fcall.fn = "payment_of_future_annuity" /\ fresult = NoResult
    /\ fresult' =
          IF future_value_of_annuity_raises(fcall.x, fcall.r, fcall.n)
          THEN Raised("ZeroDivisionError", Zero)
          ELSE LET fva == future_value_of_annuity(fcall.x, fcall.r, fcall.n) IN
               IF annuity_payment_future_value_raises(fva, fcall.r, fcall.n)
               THEN Raised("ZeroDivisionError", fva)
               ELSE Returned(fva, annuity_payment_future_value(fva, fcall.r, fcall.n))
    /\ FormulaFrame

\* mutation: at rate 0 the present value is handed back
LoanPaymentResult_Guarded(presentValue, ratePerPeriod, numberOfPeriods) ==
    IF ratePerPeriod = Zero THEN Returned(presentValue, Zero)
    ELSE IF loan_payment_raises(presentValue, ratePerPeriod, numberOfPeriods)
    THEN Raised("ZeroDivisionError", Zero)
    ELSE Returned(loan_payment(presentValue, ratePerPeriod, numberOfPeriods), Zero)

LoanPaymentResult(presentValue, ratePerPeriod, numberOfPeriods) ==
    IF loan_payment_raises(presentValue, ratePerPeriod, numberOfPeriods)
    THEN Raised("ZeroDivisionError", Zero)
    ELSE Returned(loan_payment(presentValue, ratePerPeriod, numberOfPeriods), Zero)

CallLoanPayment ==
    /\ fcall.fn = "loan_payment" /\ fresult = NoResult
    /\ fresult' = LoanPaymentResult(fcall.x, fcall.r, fcall.n)
    /\ FormulaFrame

CallAnnuityPaymentPresentValue ==
    /\ fcall.fn = "annuity_payment_present_value" /\ fresult = NoResult
    /\ fresult' =
          IF annuity_payment_present_value_raises(fcall.x, fcall.r, fcall.n)
          THEN Raised("ZeroDivisionError", Zero)
          ELSE Returned(annuity_payment_present_value(fcall.x, fcall.r, fcall.n), Zero)
    /\ FormulaFrame

CallPresentValueOfAnnuity ==
    /\ fcall.fn = "present_value_of_annuity" /\ fresult = NoResult
    /\ fresult' =
          IF present_value_of_annuity_raises(fcall.x, fcall.r, fcall.n)
          THEN Raised("ZeroDivisionError", Zero)
          ELSE Returned(present_value_of_annuity(fcall.x, fcall.r, fcall.n), Zero)
    /\ FormulaFrame

CallFutureValueOfAnnuity ==
    /\ fcall.fn = "future_value_of_annuity" /\ fresult = NoResult
    /\ fresult' =
          IF future_value_of_annuity_raises(fcall.x, fcall.r, fcall.n)
          THEN Raised("ZeroDivisionError", Zero)
          ELSE Returned(future_value_of_annuity(fcall.x, fcall.r, fcall.n), Zero)
    /\ FormulaFrame

\* remaining_balance_on_loan(pv, loan_payment(pv, r, n), r, n)
CallRemainingBalanceOfLoanPayment ==
    /\ fcall.fn = "remaining_balance_of_loan_payment" /\ fresult = NoResult
    /\ fresult' =
          IF loan_payment_raises(fcall.x, fcall.r, fcall.n)
          THEN Raised("ZeroDivisionError", Zero)
          ELSE LET payment == loan_payment(fcall.x, fcall.r, fcall.n) IN
               IF remaining_balance_on_loan_raises(fcall.x, payment, fcall.r, fcall.n)
               THEN Raised("ZeroDivisionError", payment)
               ELSE Returned(payment,
                       remaining_balance_on_loan(fcall.x, payment, fcall.r, fcall.n))
    /\ FormulaFrame

\* balloon_balance_of_a_loan and remaining_balance_on_loan, same arguments
CallBalloonAndRemainingBalance ==
    /\ fcall.fn = "balloon_and_remaining_balance" /\ fresult = NoResult
    /\ fresult' =
          IF balloon_balance_of_a_loan_raises(fcall.x, fcall.y, fcall.r, fcall.n)
          THEN Raised("ZeroDivisionError", Zero)
          ELSE LET balloon ==
                      balloon_balance_of_a_loan(fcall.x, fcall.y, fcall.r, fcall.n)
               IN
               IF remaining_balance_on_loan_raises(fcall.x, fcall.y, fcall.r, fcall.n)
               THEN Raised("ZeroDivisionError", balloon)
               ELSE Returned(balloon,
                       remaining_balance_on_loan(fcall.x, fcall.y, fcall.r, fcall.n))
    /\ FormulaFrame

\* on return val and val2 are the arguments of the two logarithms
CallDiscountedPaybackPeriod ==
    /\ fcall.fn = "discounted_payback_period" /\ fresult = NoResult
    /\ fresult' =
          IF discounted_payback_period_raises(fcall.x, fcall.r, fcall.y) # "none"
          THEN Raised(discounted_payback_period_raises(fcall.x, fcall.r, fcall.y), Zero)
          ELSE Returned(discounted_payback_period_logs(fcall.x, fcall.r, fcall.y)[1],
                        discounted_payback_period_logs(fcall.x, fcall.r, fcall.y)[2])
    /\ FormulaFrame

(***************************************************************************)
(* tests/testFinanceFormulas.py.  testLine = 0: before line 9; k in        *)
(* 1..Len(TestAsserts): the assert of line 11 + k runs next; then the      *)
(* final print.  The comparison of an assert on a method the class defines *)
(* is taken to hold.                                                       *)
(***************************************************************************)
TestStep ==
    /\ raised = "none"
    /\ testLine <= Len(TestAsserts) + 1
    /\ IF testLine = 0
       THEN /\ stdout' = Append(stdout, [kind |-> "text", msg |-> "Testing Finance Formulas..."])
            /\ testLine' = 1
            /\ UNCHANGED << raised, exitCode >>
       ELSE IF testLine = Len(TestAsserts) + 1
       THEN /\ stdout' = Append(stdout, [kind |-> "text", msg |-> "Testing successful"])
            /\ testLine' = testLine + 1
            /\ exitCode' = 0
            /\ UNCHANGED raised
       ELSE IF TestAsserts[testLine] \in FinanceFormulasMethods
       THEN /\ testLine' = testLine + 1
            /\ UNCHANGED << stdout, raised, exitCode >>
       ELSE /\ raised' = "AttributeError"
            /\ exitCode' = 1
            /\ UNCHANGED << stdout, testLine >>
    /\ UNCHANGED << pc, stdin, fcall, fresult >>
    /\ UNCHANGED << mortgageInputs, mortgageDerived, mortgageLoop >>
    /\ UNCHANGED << taxVars, compoundVars, iskInputs, iskLoop >>

FormulasNext ==
    \/ CallGeometricMeanReturn
    \/ CallHoldingPeriodReturn
    \/ CallNetPresentValue
    \/ CallWeightedAverage
    \/ CallPresentOfFuture
    \/ CallFutureOfPresent
    \/ CallPaymentOfPresentAnnuity
    \/ CallPaymentOfFutureAnnuity
    \/ CallLoanPayment
    \/ CallAnnuityPaymentPresentValue
    \/ CallPresentValueOfAnnuity
    \/ CallFutureValueOfAnnuity
    \/ CallRemainingBalanceOfLoanPayment
    \/ CallBalloonAndRemainingBalance
    \/ CallDiscountedPaybackPeriod
    \/ TestStep

SpecFormulas == FormulasInit /\ [][FormulasNext]_vars

(***************************************************************************)
(* Properties of the mortgage calculator.                                  *)
(***************************************************************************)
Rows == SelectSeq(stdout, LAMBDA l : l.kind = "row")

Totals == SelectSeq(stdout, LAMBDA l : l.kind = "total")

InTable == pc \in {"loop", "done"}

AllDefaults == << Empty, Empty, Empty, Empty >>

\* C1: when the script has ended normally, the remaining balance is 0,
\* and 0 is the balance shown in the last monthly row and in the Total row.
C1_FinalBalanceZero ==
    pc = "done" =>
        /\ loanLeft = Zero
        /\ stdout[Len(stdout)].loanLeft = 0
        /\ \A k \in 1..Len(stdout) :
              (stdout[k].kind = "row" /\ stdout[k].month = i) => stdout[k].loanLeft = 0

C2_Table ==
    /\ InTable => /\ Len(Rows) = i
                  /\ \A k \in 1..Len(Rows) : Rows[k].month = k
    /\ pc = "loop" => Len(Totals) = 0
    /\ pc = "done" =>
          /\ Len(Totals) = 1
          /\ stdout[Len(stdout)].kind = "total"
          /\ RLe(Whole(i), RMul(mortgageType, Whole(12)))
          /\ RLt(RMul(mortgageType, Whole(12)), Whole(i + 1))
    /\ (InTable /\ i = 1) =>
          RMul(interest, Whole(12)) = RMul(loanAmount, interestRate)

C2_Step ==
    i' = i + 1 =>
        /\ RMul(interest', Whole(12)) = RMul(loanLeft, interestRate)
        /\ Len(stdout') = Len(stdout) + 1
        /\ stdout'[Len(stdout')].kind = "row"
        /\ stdout'[Len(stdout')].interest = Ceil(interest')

\* C2: the loop makes one step, printing one row, for each month up to the
\* whole part of years * 12, and then prints exactly one Total row; the
\* interest of a step is the balance before that step's payment times
\* rate / 12, so the first month's interest is loanAmount * rate / 12.
C2_OneRowPerMonth == [] C2_Table /\ [][C2_Step]_vars

C2_Witness ==
    /\ pc = "done"
    /\ mortgageType = Rat(21, 20)
    /\ i = 12
    /\ RLt(Zero, interest)

\* C3: loanAmount = propertyCost * (1 - downPayment), the payment is
\* loanAmount / (years * 12) and every row shows it; four empty answers
\* give the defaults, a loan of 1 700 000 and a payment of 1 700 000 / 180.
C3_DerivedParameters ==
    InTable =>
        /\ RAdd(loanAmount, RMul(propertyCost, downPayment)) = propertyCost
        /\ RMul(amortizationPayment, RMul(mortgageType, Whole(12))) = loanAmount
        /\ \A k \in 1..Len(Rows) : Rows[k].amortization = Ceil(amortizationPayment)
        /\ stdin = AllDefaults =>
              /\ propertyCost = Whole(2000000)
              /\ downPayment = Rat(15, 100)
              /\ mortgageType = Whole(15)
              /\ interestRate = Rat(4, 100)
              /\ loanAmount = Whole(1700000)
              /\ amortizationPayment = Rat(1700000, 180)

C3_Witness == pc = "done" /\ stdin = AllDefaults /\ Len(Rows) = 180

C4_Step ==
    i' = i + 1 =>
        IF RLe(RSub(loanLeft, amortizationPayment), Zero)
        THEN loanLeft' = Zero
        ELSE loanLeft' = RSub(loanLeft, amortizationPayment)

\* C4: after every monthly step the remaining balance is >= 0, and it is
\* exactly 0 whenever the subtraction gave zero or less.
C4_BalanceNotNegative ==
    [] ((InTable /\ i >= 1) => RLe(Zero, loanLeft)) /\ [][C4_Step]_vars

C4_Witness ==
    /\ pc = "loop"
    /\ i >= 1
    /\ loanLeft = Zero
    /\ RLt(RSub(loanAmount, amortizationPayment), Zero)

\* C5: the accumulated total interest never decreases from one monthly
\* step to the next.
C5_InterestNeverDecreases == [][RLe(interestTotal, interestTotal')]_vars

\* what the claim counts as a bad answer at prompt k
BadAnswer(k, ans) ==
    \/ ans.kind = "text"
    \/ /\ ans.kind = "num"
       /\ IF k \in {1, 3} THEN RLe(ans.val, Zero) ELSE RLt(ans.val, Zero)

\* C6: a bad answer (not numeric, cost <= 0, term <= 0, negative
\* percentage) ends the script with exit code 1 after an error message,
\* with no header, row or Total row, and no later prompt is issued.
C6_BadAnswerExits ==
    \A k \in 1..Len(stdin) :
        BadAnswer(k, stdin[k]) =>
            /\ Len(stdin) = k
            /\ pc = "exited"
            /\ exitCode = 1
            /\ Len(stdout) = 1
            /\ stdout[1].kind = "error"

C6_Witness ==
    /\ exitCode = 1
    /\ Len(stdin) = 3
    /\ stdin[3].kind = "num"
    /\ stdout = << [kind |-> "error", msg |-> "Invalid Mortgage type."] >>

(***************************************************************************)
(* Properties of calculate_flat_rate_tax.                                  *)
(***************************************************************************)
RMax(x, y) == IF RLt(x, y) THEN y ELSE x

FourHundreds == << Whole(100), Whole(100), Whole(100), Whole(100) >>

\* C7: the tax is capitalBase * imputedRate * 0.30 with capitalBase =
\* (sum of the quarterly values + deposits) / 4 and imputedRate =
\* max(rate + 0.01, 0.0125); below a rate of 0.0025 the floor 0.0125 is
\* used, and four values of 100, no deposits, rate 0.0002 give 0.375.
C7_FlatRateTaxFormula ==
    pc = "returned" =>
        /\ RMul(tax, Whole(4)) =
              RMul(RMul(RAdd(RSum(quaterValues), deposits),
                        RMax(RAdd(governmentBorrowingRate, Rat(1, 100)), Rat(125, 10000))),
                   Rat(30, 100))
        /\ RLt(governmentBorrowingRate, Rat(25, 10000)) =>
              RMul(tax, Whole(4)) =
                 RMul(RMul(RAdd(RSum(quaterValues), deposits), Rat(125, 10000)),
                      Rat(30, 100))
        /\ (quaterValues = FourHundreds /\ deposits = Zero
              /\ governmentBorrowingRate = Rat(2, 10000)) => tax = Rat(375, 1000)

C7_Witness ==
    /\ pc = "returned"
    /\ quaterValues = FourHundreds
    /\ deposits = Zero
    /\ governmentBorrowingRate = Rat(2, 10000)
    /\ tax = Rat(3, 8)

NonNegativeArguments ==
    /\ \A k \in 1..Len(quaterValues) : RLe(Zero, quaterValues[k])
    /\ RLe(Zero, deposits)
    /\ RLe(Zero, governmentBorrowingRate)

\* C8: with all quarterly values, the deposits and the rate >= 0, a call of
\* calculate_flat_rate_tax returns, and what it returns is >= 0.
C8_TaxNotNegative ==
    (taxCalls > 0 /\ NonNegativeArguments) =>
        /\ pc = "returned"
        /\ raised = "none"
        /\ RLe(Zero, tax)

C8_Witness ==
    /\ pc = "returned"
    /\ NonNegativeArguments
    /\ RLt(Zero, deposits)
    /\ RSum(quaterValues) = Zero
    /\ RLt(Zero, tax)

(***************************************************************************)
(* Properties of the compound-interest calculator.                         *)
(***************************************************************************)
YearRows == SelectSeq(stdout, LAMBDA l : l.kind = "year")

\* the run has ended and its answers were converted without an error
CompoundRunEnded ==
    /\ pc \in {"done", "crashed"}
    /\ raised # "ValueError"
    /\ yearsToSave >= 0

\* C9: a run for Y years prints exactly Y yearly rows, and row k shows
\* Tot Saved = startCapital + 12 * k * monthlyDeposit.
C9_OneRowPerYear ==
    CompoundRunEnded =>
        /\ Len(YearRows) = yearsToSave
        /\ \A k \in 1..Len(YearRows) :
              YearRows[k].totSaved =
                 Trunc(RAdd(startCapital, RMul(Whole(12 * k), monthlyDeposit)))

\* C10: calculate_flat_rate_tax is called once per simulated year, one row
\* is printed per call, and the list of quarterly samples is empty again
\* after each call.
C10_TaxOncePerYear ==
    CompoundRunEnded =>
        /\ taxCalls = yearsToSave
        /\ Len(YearRows) = taxCalls
        /\ quaterValues = << >>

(***************************************************************************)
(* Properties of the two savings projections.                              *)
(***************************************************************************)
FlagOn(ans) == ans = Empty \/ ans.kind \in {"y", "Y"}

\* C11: in the compound-interest projection every simulated year has a row
\* that shows that year's tax, whatever the tax flag; the flag is on
\* exactly when the fifth answer is empty or is y or Y.
C11_TaxShownEveryYear ==
    /\ pc = "monthlyRate" => (flatRateTax <=> FlagOn(stdin[5]))
    /\ CompoundRunEnded =>
          \A y \in 1..yearsToSave :
              \E k \in 1..Len(stdout) :
                  /\ stdout[k].kind = "year"
                  /\ stdout[k].year = y
                  /\ stdout[k].tax >= 0

\* C19: the clamp does not touch the interest: in every month the interest
\* is what the unclamped balance loanAmount - (i - 1) * payment gives, and
\* so is the accumulated total (payment = loanAmount / number of payments).
C19_ClampDisplayOnly ==
    (InTable /\ i >= 1) =>
        /\ RMul(interest, Whole(12)) =
              RMul(RSub(loanAmount, RMul(Whole(i - 1), amortizationPayment)),
                   interestRate)
        /\ RMul(interestTotal, Whole(12)) =
              RMul(RMul(loanAmount,
                        RSub(Whole(i), RDiv(Rat(i * (i - 1), 2),
                                            amortizationNumberOfPayments))),
                   interestRate)

\* C20: in the ISK projection every simulated month computes the compound
\* interest of that month and adds it to the lifetime gain: with capital
\* and a return above 0 the lifetime gain grows in every monthly step.
C20_GainEveryMonth ==
    [][(month' = month + 1 /\ RLt(Zero, RAdd(totalSum, monthlySave))
            /\ RLt(Zero, yearlyReturn))
          => RLt(totalGained, totalGained')]_vars

(***************************************************************************)
(* Properties of the formula library and of its test script, under         *)
(* SpecFormulas.  The formulas are checked in exact fractions; the         *)
(* rounding of floating-point numbers is not part of the model.            *)
(***************************************************************************)
Answered(fn) == fcall.fn = fn /\ fresult.status # "none"

\* C12: geometric_mean_return([]) and holding_period_return([]) both return
\* exactly 0 and raise nothing.
C12_EmptyListGivesZero ==
    \A fn \in {"geometric_mean_return", "holding_period_return"} :
        (Answered(fn) /\ fcall.xs = << >>) =>
            /\ fresult.status = "ok"
            /\ fresult.val = Zero

C12_Witness ==
    /\ Answered("geometric_mean_return")
    /\ fcall.xs = << >>
    /\ fresult.status = "ok"

\* the product of (1 + r_i) over the list, from its first element
RECURSIVE GrowthProduct(_)
GrowthProduct(returns) ==
    IF returns = << >> THEN One
    ELSE RMul(RAdd(One, Head(returns)), GrowthProduct(Tail(returns)))

RECURSIVE PresentSum(_, _, _)
PresentSum(flows, rate, upto) ==
    IF upto = 0 THEN Zero
    ELSE RAdd(PresentSum(flows, rate, upto - 1),
              RDiv(flows[upto], Pow(RAdd(One, rate), upto)))

\* C14: net_present_value is the sum of cashFlows[i] / (1 + rate)^(i+1),
\* i from 0 (the first flow is divided by 1 + rate), minus the initial
\* investment; at rate 0 it is the plain sum minus the investment.
C14_NetPresentValue ==
    (Answered("net_present_value") /\ fresult.status = "ok") =>
        /\ fresult.val = RSub(PresentSum(fcall.xs, fcall.r, Len(fcall.xs)), fcall.x)
        /\ Len(fcall.xs) = 1 =>
              fresult.val = RSub(RDiv(fcall.xs[1], RAdd(One, fcall.r)), fcall.x)
        /\ fcall.r = Zero => fresult.val = RSub(RSum(fcall.xs), fcall.x)

C14_Witness ==
    /\ Answered("net_present_value")
    /\ fresult.status = "ok"
    /\ Len(fcall.xs) = 3
    /\ fcall.xs[1] # Zero
    /\ fcall.r = Rat(1, 4)

C18_AllAssertionsRun ==
    /\ raised = "none"
    /\ testLine \in 1..Len(TestAsserts) =>
          TestAsserts[testLine] \in FinanceFormulasMethods

\* C23: loan_payment, annuity_payment_present_value,
\* present_value_of_annuity and future_value_of_annuity called with the
\* rate 0 return no number: the call ends in ZeroDivisionError.
C23_RateZeroDivides ==
    \A fn \in {"loan_payment", "annuity_payment_present_value",
               "present_value_of_annuity", "future_value_of_annuity"} :
        (Answered(fn) /\ fcall.r = Zero) =>
            fresult = Raised("ZeroDivisionError", Zero)

C23_Witness ==
    /\ Answered("loan_payment")
    /\ fcall.r = Zero
    /\ fcall.x = Whole(100)
    /\ fcall.n = 2
    /\ fresult.status = "ZeroDivisionError"

\* C24: of the formulas that take a list only geometric_mean_return and
\* holding_period_return turn the empty list into 0: weighted_average of
\* two empty lists ends in ZeroDivisionError, and net_present_value of no
\* cash flows is minus the initial investment.
C24_EmptyListElsewhere ==
    /\ (Answered("weighted_average") /\ fcall.ws = << >> /\ fcall.xs = << >>) =>
          fresult.status = "ZeroDivisionError"
    /\ (Answered("net_present_value") /\ fcall.xs = << >>) =>
          /\ fresult.status = "ok"
          /\ fresult.val = RNeg(fcall.x)

C24_Witness ==
    /\ Answered("net_present_value")
    /\ fcall.xs = << >>
    /\ fcall.x = Whole(400)
    /\ fresult.val = Whole(-400)

\* C25: discounted_payback_period returns a number only when
\* initialInvestment * rate < periodicCashFlow, and ends in an arithmetic
\* error whenever initialInvestment * rate >= periodicCashFlow.
C25_PaybackOnlyBelowCashFlow ==
    Answered("discounted_payback_period") =>
        /\ fresult.status = "ok" => RLt(RMul(fcall.x, fcall.r), fcall.y)
        /\ RLe(fcall.y, RMul(fcall.x, fcall.r)) =>
              fresult.status \in {"ZeroDivisionError", "ValueError"}

\* C25, for a periodic cash flow above 0: a number is returned only when
\* initialInvestment * rate < periodicCashFlow; otherwise the call ends in
\* ZeroDivisionError or ValueError.
C25_PaybackPositiveCashFlow ==
    (Answered("discounted_payback_period") /\ RLt(Zero, fcall.y)) =>
        /\ fresult.status = "ok" => RLt(RMul(fcall.x, fcall.r), fcall.y)
        /\ RLe(fcall.y, RMul(fcall.x, fcall.r)) =>
              fresult.status \in {"ZeroDivisionError", "ValueError"}

C25_Witness ==
    /\ Answered("discounted_payback_period")
    /\ fcall.y = Whole(100)
    /\ fcall.x = Whole(200)
    /\ fcall.r = One
    /\ fresult.status = "ValueError"

C21_PercentageInUnitInterval ==
    InTable =>
        /\ RLe(Zero, downPayment) /\ RLe(downPayment, One)
        /\ RLe(Zero, interestRate) /\ RLe(interestRate, One)
        /\ RLe(Zero, loanAmount)

\* C27: the Total row shows loanAmount and loanAmount + total interest, and
\* these are the sum of the amortization payments and the sum of the total
\* payments of the monthly rows (i rows, each with the same amortization).
C27_TotalRowSums ==
    pc = "done" =>
        /\ Len(Totals) = 1
        /\ Totals[1].amortization = Ceil(loanAmount)
        /\ Totals[1].payment = Ceil(RAdd(loanAmount, interestTotal))
        /\ loanAmount = RMul(Whole(i), amortizationPayment)
        /\ RAdd(loanAmount, interestTotal) =
              RAdd(RMul(Whole(i), amortizationPayment), interestTotal)

\* C22: in every call of calculate_flat_rate_tax the deposits argument is
\* the total deposited in the year, 12 times the monthly deposit.
C22_DepositsOfTheYear ==
    (pc \in {"loop", "done", "crashed"} /\ taxCalls > 0) =>
        deposits = RMul(Whole(12), monthlySave)

RECURSIVE GainedUpTo(_)
GainedUpTo(k) == IF k = 0 THEN 0 ELSE GainedUpTo(k - 1) + YearRows[k].gained

====
